---- MODULE Spec2Model ----
(***************************************************************************)
(* State-machine model of the OfertasB scraper                             *)
(* (ofertasb-scraper/scrape_ofertasb.py, supabase_client.py).              *)
(*                                                                         *)
(* The source site is a value chosen in the initial state (pagination      *)
(* link graph, product cards per listing page, detail pages).  The store   *)
(* is the pair of tables products / categories.  A crawl run is one of the *)
(* sequential programs scrape_category and main, one action per loop       *)
(* iteration.                                                              *)
(***************************************************************************)
EXTENDS Integers, Sequences, FiniteSets, TLC

\* ------------------------------------------------------------------ bounds
MaxCat == 1        \* categories of the site are 1..MaxCat
MaxPg == 2         \* SpecPages: pagination URLs of a category are pagina 0..MaxPg
MaxPages == 2      \* Spec: a category has 1..MaxPages listing pages
MaxProd == 2       \* product ids are 1..MaxProd
MaxCards == 2      \* product cards on the whole site
MaxRuns == 2       \* crawl runs in one behaviour
MaxStoreRows == 2  \* the store returns 1..MaxStoreRows rows per query
MaxFaults == 1     \* fetches and store operations that fail in one behaviour
MaxLen == 4        \* characters of a price string given to parse_price
MaxStored == 5     \* the products table of the uncategorized scraper holds ids 1..MaxStored
PageSize == 2      \* page_size of load_existing_products (1000 in the code), scaled down
MaxListing == 7    \* pages of the listing the uncategorized scraper walks

\* the limit _load_existing_products asks for
QueryLimit == 100000

Cats == 1..MaxCat
ProductIds == 1..MaxProd
Names == {"n1"}
Prices == {"p1", "p2"}
Thumbs == {"t1"}
HiRes == {"h1"}
NoImage == "None"

\* A URL productos_cat.asp?id=<cat>[&pagina=<pg>]; pg = 0 is the URL without pagina.
Url(c, n) == <<c, n>>
UrlsOf(c, maxpg) == {Url(c, n) : n \in 0..maxpg}
\* the URLs of the crawled categories
CrawlUrls == {Url(c, n) : c \in Cats, n \in 0..(IF MaxPg > MaxPages THEN MaxPg ELSE MaxPages)}

\* ids of categories that are not crawled: one whose decimal digits begin with those
\* of a crawled id (10 for 1), and one that has nothing in common with them
ForeignCats == {10 * c : c \in Cats} \cup {MaxCat + 1}

\* every URL a page of the site can link to
AllUrls == CrawlUrls \cup {Url(c, n) : c \in Cats \cup ForeignCats, n \in 0..(MaxPg + 1)}

\* base_url = f"{BASE_URL}/productos_cat.asp?id={category_id}"
BaseUrl(c) == Url(c, 0)

\* order of sorted() on the URL strings: by category id, then by pagina (the page
\* numbers of the model have one digit and its ids one digit or one digit followed
\* by 0, where the order of the strings of the ids c and 10 * c, and of the pages of
\* one id, is the order of the numbers)
UrlLeq(u, v) == u[1] < v[1] \/ (u[1] = v[1] /\ u[2] <= v[2])

Range(f) == {f[x] : x \in DOMAIN f}

\* ------------------------------------------------------------ the source site
\* a product card of a listing page: the table's link id, name cell, price cell,
\* thumbnail, and whether the table has the signature of a product table (lines
\* 601-606: width 200, id customers, a link, an image, three rows)
Card == [id : ProductIds, name : Names, price : Prices, thumb : Thumbs, signature : {TRUE}]

\* a card placed on a listing page
Placement == [url : CrawlUrls, card : Card]

\* pagination bar of a category with np pages: every page links to every page
BarLinks(np) == [u \in AllUrls |->
                   IF u \in CrawlUrls /\ u[2] < np[u[1]] THEN {Url(u[1], m) : m \in 0..(np[u[1]] - 1)} ELSE {}]

\* the cards of listing page u, in document order
CardsOn(listing, u) ==
    LET sel == SelectSeq(listing, LAMBDA p : p.url = u)
    IN [i \in 1..Len(sel) |-> sel[i].card]

\* listings of at most MaxCards cards, pages in URL order, on pages that exist; the
\* first card is product 1 at the first price (ids and prices are interchangeable)
Listings(np) ==
    {l \in UNION {[1..n -> Placement] : n \in 0..MaxCards} :
        /\ \A i \in 1..Len(l) : l[i].url[2] < np[l[i].url[1]]
        /\ \A i \in 1..(Len(l) - 1) : UrlLeq(l[i].url, l[i + 1].url)
        /\ Len(l) > 0 => (l[1].card.id = 1 /\ l[1].card.price = "p1")}

\* the sites of the crawl specification
Sites == UNION {{[links |-> BarLinks(np),
                  side |-> [u \in AllUrls |-> {}],
                  cards |-> [u \in AllUrls |-> CardsOn(l, u)],
                  hires |-> h] :
                   l \in Listings(np), h \in [ProductIds -> HiRes \cup {NoImage}]} :
                np \in [Cats -> 1..MaxPages]}

\* the sites of the pagination specification: any link graph over one category's URLs
PageSites == {[links |-> [u \in AllUrls |-> IF u \in DOMAIN g THEN g[u] ELSE {}],
               side |-> [u \in AllUrls |-> {}],
               cards |-> [u \in AllUrls |-> <<>>],
               hires |-> [i \in ProductIds |-> NoImage]] :
                g \in UNION {[UrlsOf(c, MaxPg) -> SUBSET UrlsOf(c, MaxPg)] : c \in Cats}}

VARIABLES
    site,               \* the source site (constant during a behaviour, edited between runs)
    products,           \* table products: external_product_id -> row
    categories,         \* table categories: sequence of rows
    idColumn,           \* type of the column products.external_product_id
    entry,              \* "pages" | "scrape_category" | "main"
    arg,                \* category_id argument of scrape_category: {} (None) or {c}
    run,                \* number of the crawl run, also its timestamp
    pc,                 \* position in the program
    cats,               \* local list categories of the run
    catIdx,             \* index of the category being processed
    existing_products,  \* the fingerprint cache: key -> hash
    pages,              \* get_category_pages: pages
    pages_to_check,     \* get_category_pages: pages_to_check
    checked_pages,      \* get_category_pages: checked_pages
    pages_list,         \* the sorted list get_category_pages returned
    pageIdx,            \* index of the listing page being processed
    page_hashes,        \* page_hashes: hash -> index of the product table
    new_hashes,         \* hashes of the page still to iterate
    tableIdx,           \* process_page: index of the table being processed
    added_products,     \* added_products of the category
    fetchCount,         \* history: _fetch_page calls per URL in the current traversal
    fetchFailed,        \* history: a fetch of the current traversal failed
    fetchOrder,         \* history: the URLs of the current traversal in the order fetchOrder
    trace,              \* history: events of the current run
    clean,              \* history: no fetch, load or write failure so far in this run
    faults,             \* history: failures so far in this behaviour
    loadOutcome,        \* history: "none" | "error" | "partial" | "all", the last cache load
    prevClean,          \* history: the previous run ended normally, was clean and the
                        \* site has not changed since it began
    root,               \* history: what the catalog root page held when the run read it
    fn                  \* the call in progress of a function specified on its own

siteVars == <<site>>
storeVars == <<products, categories, idColumn>>
runVars == <<entry, arg, run, cats, catIdx, existing_products>>
gcpVars == <<pages, pages_to_check, checked_pages, fetchCount, fetchFailed, fetchOrder>>
pageVars == <<pages_list, pageIdx, page_hashes, new_hashes, tableIdx, added_products>>
histVars == <<trace, clean, faults, loadOutcome, prevClean>>
auxVars == <<root, fn>>
vars == <<site, products, categories, idColumn, entry, arg, run, pc, cats, catIdx,
          existing_products, pages, pages_to_check, checked_pages, pages_list, pageIdx,
          page_hashes, new_hashes, tableIdx, added_products, fetchCount, fetchFailed,
          fetchOrder, trace, clean, faults, loadOutcome, prevClean, root, fn>>

\* ------------------------------------------------- get_category_pages (133-237)
RECURSIVE DigitsBeginWith(_, _)
\* the decimal digits of n begin with those of p
DigitsBeginWith(n, p) == n = p \/ (n >= 10 /\ DigitsBeginWith(n \div 10, p))

\* lines 180, 194: f"id={category_id}" in href, for the href of URL u
IdInHref(category_id, u) == DigitsBeginWith(u[1], category_id)

\* extract_page_links(url), set() when the fetch fails. Method 1 (lines 145-164)
\* takes every numbered or "Siguiente" link of the pagination table (site.links),
\* whatever its category; methods 2 to 4 (lines 166-197) take a link to a listing
\* page found elsewhere on the page (site.side) when its href holds the id
ExtractPageLinks(url, ok) ==
    IF ok THEN site.links[url] \cup {u \in site.side[url] : IdInHref(cats[catIdx], u)}
    ELSE {}

\* a traversal that records no page as checked
MarkCheckedNever(checked, url) == checked

\* checked_pages.add(current_url)
MarkChecked(checked, url) == checked \cup {url}

\* new_pages - checked_pages
Unchecked(new_pages, checked) == new_pages \ checked

RECURSIVE SortedDesc(_)
\* the list in descending order
SortedDesc(S) ==
    IF S = {} THEN <<>>
    ELSE LET m == CHOOSE x \in S : \A y \in S : UrlLeq(y, x)
         IN <<m>> \o SortedDesc(S \ {m})

RECURSIVE Sorted(_)
\* sorted(list(pages))
Sorted(S) ==
    IF S = {} THEN <<>>
    ELSE LET m == CHOOSE x \in S : \A y \in S : UrlLeq(x, y)
         IN <<m>> \o Sorted(S \ {m})

Bump(n) == IF n < 2 THEN n + 1 ELSE 2

\* the outcomes of a fetch or of a store operation: success, or failure while the
\* behaviour's failures are not used up (the pagination specification lets every
\* fetch fail)
Outcomes == IF entry = "pages" \/ faults < MaxFaults THEN BOOLEAN ELSE {TRUE}
Failed(ok) == IF ok \/ entry = "pages" THEN 0 ELSE 1

\* lines 135-136, 213-215
GcpBegin ==
    /\ pc = "gcp_call"
    /\ LET base_url == BaseUrl(cats[catIdx])
       IN /\ pages' = {base_url}
          /\ pages_to_check' = {base_url}
          /\ checked_pages' = {}
    /\ fetchCount' = [u \in AllUrls |-> 0]
    /\ fetchFailed' = FALSE
    /\ fetchOrder' = <<>>
    /\ pc' = "gcp_loop"
    /\ UNCHANGED <<siteVars, auxVars, storeVars, runVars, pageVars, histVars>>

\* one iteration of the while loop, lines 219-233
CheckPage ==
    /\ pc = "gcp_loop"
    /\ \E current_url \in pages_to_check, ok \in Outcomes :
         IF current_url \in checked_pages
         THEN /\ pages_to_check' = pages_to_check \ {current_url}
              /\ UNCHANGED <<pages, checked_pages, fetchCount, fetchFailed, fetchOrder, clean,
                             faults>>
         ELSE LET new_pages == ExtractPageLinks(current_url, ok)
                  checked == MarkChecked(checked_pages, current_url)
              IN /\ checked_pages' = checked
                 /\ pages' = pages \cup new_pages
                 /\ pages_to_check' =
                        (pages_to_check \ {current_url}) \cup Unchecked(new_pages, checked)
                 /\ fetchCount' = [fetchCount EXCEPT ![current_url] = Bump(@)]
                 /\ fetchFailed' = (fetchFailed \/ ~ok)
                 /\ fetchOrder' = Append(fetchOrder, current_url)
                 /\ clean' = (clean /\ ok)
                 /\ faults' = faults + Failed(ok)
    /\ UNCHANGED <<pc, siteVars, auxVars, storeVars, runVars, pageVars, trace, loadOutcome,
                   prevClean>>

\* lines 235-237: the loop has ended, the sorted list is returned
GcpReturn ==
    /\ pc = "gcp_loop"
    /\ pages_to_check = {}
    /\ pages_list' = Sorted(pages)
    /\ pageIdx' = 1
    /\ pc' = CASE entry = "pages" -> "gcp_done"
                [] entry = "scrape_category" -> "sc_page"
                [] entry = "main" -> "fcp_page"
    /\ UNCHANGED <<siteVars, auxVars, storeVars, runVars, gcpVars, page_hashes, new_hashes,
                   tableIdx, added_products, histVars>>

\* ------------------------------------------------------------- fingerprints
\* hash_data = f"{name}:{price}:{image}"
HashData(name, price, image) == name \o ":" \o price \o ":" \o image

\* hashlib.md5(data.encode('utf-8')).hexdigest(); collisions are excluded, so the
\* digest is identified with the string it digests
Md5(data) == <<"md5", data>>

\* f"{n}" of an int
DecStr(n) == <<"0", "1", "2", "3", "4", "5", "6", "7", "8", "9">>[n + 1]

\* a product id as the int process_product_card computes (line 450)
IntKey(n) == <<"int", n>>
\* a product id as the string upsert_product stores (supabase_client.py line 74)
StrKey(n) == <<"str", n>>

\* in place of the id of a product table: no link in its first cell (0), a link
\* whose id is no number (-1); a price cell without currency glyph, a price
\* parse_price cannot parse
NoLink == 0
BadId == 0 - 1
NoGlyphPrice == "p_noglyph"
BadPrice == "p_unparseable"

\* lines 615-635: the page loop hashes a table unless an exception is raised on the
\* way, as img_row.find('img') on a table without link (img_row is None) or
\* img_elem['src'] on a link without image (img_elem is None)
Hashable(card) == card.id # NoLink /\ card.thumb # NoImage

\* lines 617-630: the hash of a product table as the page loop computes it
PageHash(card) == Md5(HashData(card.name, card.price, card.thumb))

\* lines 613-635: page_hashes[product_hash] = product_table, a later table replacing
\* an earlier one with the same hash
PageHashes(tables) ==
    LET hashed == {i \in 1..Len(tables) : tables[i].signature /\ Hashable(tables[i])}
    IN [h \in {PageHash(tables[i]) : i \in hashed} |->
          CHOOSE i \in hashed :
              /\ PageHash(tables[i]) = h
              /\ \A j \in hashed : PageHash(tables[j]) = h => j <= i]

\* a page loop that takes every hash of the page as new
NewHashesAll(hashes, cache) == DOMAIN hashes

\* lines 638-639: existing_hashes = set(existing_products.values());
\* new_hashes = set(page_hashes.keys()) - existing_hashes
NewHashes(hashes, cache) == DOMAIN hashes \ Range(cache)

\* ------------------------------------------------- process_product_card (442-541)
\* an enrichment that takes whatever the detail page gives, also no image
ListImageOfDetail(card, detail_ok) == IF detail_ok THEN site.hires[card.id] ELSE card.thumb

\* lines 456-483: the thumbnail, replaced by the detail page's image when the detail
\* page was fetched and holds one
ListImage(card, detail_ok) ==
    IF detail_ok /\ site.hires[card.id] # NoImage THEN site.hires[card.id] ELSE card.thumb

\* a hash of the card's listing data alone
CurrentHashOfThumb(card, detail_ok) == PageHash(card)

\* lines 504-511
CurrentHash(card, detail_ok) ==
    Md5(HashData(card.name, card.price, ListImage(card, detail_ok)))

\* lines 514-516: external_product_id in self.existing_products and the hash is equal
InCacheSame(cache, external_product_id, current_hash) ==
    /\ external_product_id \in DOMAIN cache
    /\ cache[external_product_id] = current_hash

\* an extraction that checks the link and the id only
ExtractionFailureOfId(card) ==
    CASE card.id = NoLink -> "no_link"
      [] card.id = BadId -> "bad_id"
      [] OTHER -> "none"

\* the first step of lines 446-502 that raises ValueError for the card, "none" when
\* every step succeeds: the link (447-454), int() of its id (450-452), the name
\* (487-488), the currency glyph (495-496), parse_price (498)
ExtractionFailure(card) ==
    CASE card.id = NoLink -> "no_link"
      [] card.id = BadId -> "bad_id"
      [] card.name = "" -> "no_name"
      [] card.price = NoGlyphPrice -> "no_glyph"
      [] card.price = BadPrice -> "bad_price"
      [] OTHER -> "none"

\* lines 464-483 are reached: the link and the id were extracted
FetchesDetail(card) == card.id \notin {NoLink, BadId}

\* the value process_product_card returns: no record (None) or one record; every
\* exception of the extraction is caught at line 537 and None is returned
ProcessProductCard(card, category_id, detail_ok) ==
    LET external_product_id == IntKey(card.id)
        current_hash == CurrentHash(card, detail_ok)
    IN IF ExtractionFailure(card) # "none"
       THEN {}
       ELSE IF InCacheSame(existing_products, external_product_id, current_hash)
       THEN {}
       ELSE {[external_product_id |-> external_product_id,
              image_url |-> ListImage(card, detail_ok),
              name |-> card.name,
              price_raw |-> card.price,
              source_html_hash |-> current_hash,
              category_id |-> category_id]}

\* ------------------------------------------------------------------ the store
\* supabase_client.py 72-84, 108-111: the row upsert_product writes, keyed by
\* str(external_product_id)
UpsertRow(table, product_data) ==
    LET n == product_data.external_product_id[2]
        row == [source_html_hash |-> product_data.source_html_hash,
                category_id |-> product_data.category_id,
                image_url |-> product_data.image_url,
                name |-> product_data.name,
                price_raw |-> product_data.price_raw]
    IN [k \in DOMAIN table \cup {n} |-> IF k = n THEN row ELSE table[k]]

Min(a, b) == IF a < b THEN a ELSE b

\* line 48: the product rows of the category, all rows when category_id is None
Matching(category_id) ==
    {n \in DOMAIN products : category_id = {} \/ products[n].category_id \in category_id}

\* the rows a select on products returns: those of the category when one is given
\* (line 48), at most `limit` of them (line 51) and at most `cap` of them (the
\* store's own bound on the rows of one response), in no particular order
QueryResults(category_id, limit, cap) ==
    LET k == Min(Cardinality(Matching(category_id)), Min(limit, cap))
    IN {R \in SUBSET Matching(category_id) : Cardinality(R) = k}

\* product['external_product_id'] of a returned row: the string upsert_product
\* sent when the column is a text column, a number when it is an integer column
ReturnedKey(n) == IF idColumn = "text" THEN StrKey(n) ELSE IntKey(n)

\* lines 55-58: the cache built from the rows of the response
CacheOf(rows) == [k \in {ReturnedKey(n) : n \in rows} |-> products[k[2]].source_html_hash]

\* a select on categories that finds no row
CategoryRowsNone(external_id) == {}

\* the rows of the category with this external_id
CategoryRows(external_id) ==
    {i \in 1..Len(categories) : categories[i].external_id = external_id}

\* lines 559-565 and 729-735: the row scrape_category and process_page insert;
\* product_count is not set; the id is generated by the store (a number that is no
\* category id of the site)
NewCategoryRow(external_id, now) ==
    [id |-> MaxCat + Len(categories) + 1, external_id |-> external_id,
     last_crawled_at |-> now, product_count |-> {}]

\* ------------------------------------------------------ scrape_category (543-685)
Event(kind, url, idx, id, fp, ok) ==
    [kind |-> kind, url |-> url, idx |-> idx, id |-> id, fp |-> fp, ok |-> ok]

SeqOfCats == [i \in 1..MaxCat |-> i]

\* an upsert that raises instead of returning None
UpsertProductRaises(store_ok) == IF store_ok THEN "row" ELSE "raise"

\* supabase_client.py lines 63-129, what upsert_product gives its caller: the stored
\* row, or None when the store call (or anything before it) raised: every statement
\* is inside the try of line 68, whose handlers (120, 125) return None
UpsertProduct(store_ok) == IF store_ok THEN "row" ELSE "None"

\* the call of upsert_product for a record (lines 659, 750) and, had it raised, the
\* handler of the caller (lines 670, 751) that would catch the exception
UpsertEvents(page_url, idx, id, fp, result) ==
    <<Event("upsert", page_url, idx, id, fp, result = "row")>> \o
    (IF result = "raise" THEN <<Event("upsert_raised", page_url, idx, id, fp, FALSE)>>
     ELSE <<>>)

\* the fetch of the detail page inside process_product_card (line 468), when the
\* extraction gets that far, with the hash of lines 504-511 when it gets there
DetailEvents(page_url, idx, card, detail_ok) ==
    IF FetchesDetail(card)
    THEN <<Event("detail", page_url, idx, card.id,
                 IF ExtractionFailure(card) = "none" THEN CurrentHash(card, detail_ok)
                 ELSE <<>>,
                 detail_ok)>>
    ELSE <<>>

\* lines 537-541: the handler of process_product_card prints and logs the error of
\* an extraction that failed
ErrorEvents(page_url, idx, card) ==
    IF ExtractionFailure(card) # "none"
    THEN <<Event("card_error", page_url, idx, card.id, <<>>, FALSE)>>
    ELSE <<>>

\* what the catalog root page holds: the category selector (a select named id), a
\* select element that is not the category selector, or no select element
RootPages == {"selector", "other_select", "no_select"}

\* the root page the site serves: one without the category selector is a failure
\* of the behaviour
RootOutcomes == IF faults < MaxFaults THEN RootPages ELSE {"selector"}

\* the values of the options of a select that is not the category selector:
\* fetch_categories takes them for category ids, and the site answers
\* productos_cat.asp?id=<value> for each
OtherSelectOptions == SeqOfCats

\* lines 80-102: soup.find('select', {'name': 'id'}); ValueError when there is none
GetCategoriesResult(r) == IF r = "selector" THEN {SeqOfCats} ELSE {}

\* lines 104-131: soup.find("select"), any select element; the ValueError raised when
\* there is none is caught at line 129 and [] is returned
FetchCategoriesResult(r) ==
    CASE r = "selector" -> SeqOfCats
      [] r = "other_select" -> OtherSelectOptions
      [] r = "no_select" -> <<>>

\* lines 545-546: get_categories(), filtered by category_id when one is given; a
\* failed fetch of the root page or a root page without the category selector
\* raises and ends the run
GetCategories ==
    /\ pc = "start"
    /\ entry = "scrape_category"
    /\ \E ok \in Outcomes, r \in RootOutcomes :
         LET found == IF ok THEN GetCategoriesResult(r) ELSE {}
         IN /\ ~ok => r = "selector"
            /\ root' = IF ok THEN r ELSE root
            /\ IF found # {}
               THEN /\ cats' = SelectSeq(CHOOSE l \in found : TRUE,
                                         LAMBDA c : arg = {} \/ c \in arg)
                    /\ catIdx' = 1
                    /\ pc' = "sc_categories"
                    /\ UNCHANGED <<clean, faults>>
               ELSE /\ pc' = "aborted"
                    /\ clean' = FALSE
                    /\ faults' = faults + 1
                    /\ UNCHANGED <<cats, catIdx>>
    /\ UNCHANGED <<siteVars, fn, storeVars, entry, arg, run, existing_products, gcpVars,
                   pageVars, trace, loadOutcome, prevClean>>

\* one iteration of the loop of lines 549-573: select the category row, insert it
\* when there is none; an error of the store is caught and the loop goes on
EnsureCategory ==
    /\ pc = "sc_categories"
    /\ catIdx <= Len(cats)
    /\ \E ok \in Outcomes :
         LET c == cats[catIdx]
         IN /\ categories' = IF ok /\ CategoryRows(c) = {}
                             THEN Append(categories, NewCategoryRow(c, run))
                             ELSE categories
            /\ clean' = (clean /\ ok)
            /\ faults' = faults + Failed(ok)
    /\ catIdx' = catIdx + 1
    /\ UNCHANGED <<pc, siteVars, auxVars, products, idColumn, entry, arg, run, cats,
                   existing_products, gcpVars, pageVars, trace, loadOutcome, prevClean>>

\* line 576, lines 43-62: one query, the cache replaced by its rows; {} on an error
LoadExisting ==
    /\ pc = "sc_categories"
    /\ catIdx > Len(cats)
    /\ \/ \E cap \in 1..MaxStoreRows :
            \E rows \in QueryResults(arg, QueryLimit, cap) :
               /\ existing_products' = CacheOf(rows)
               /\ loadOutcome' = IF rows = Matching(arg) THEN "all" ELSE "partial"
               /\ UNCHANGED <<clean, faults>>
       \/ /\ faults < MaxFaults
          /\ existing_products' = <<>>
          /\ loadOutcome' = "error"
          /\ clean' = FALSE
          /\ faults' = faults + 1
    /\ catIdx' = 1
    /\ pc' = "sc_cat"
    /\ UNCHANGED <<siteVars, auxVars, storeVars, entry, arg, run, cats, gcpVars, pageVars,
                   trace, prevClean>>

\* lines 582-588: the next category of the loop, or the end of the run
CategoryBegin ==
    /\ pc = "sc_cat"
    /\ IF catIdx <= Len(cats)
       THEN /\ added_products' = <<>>
            /\ trace' = <<>>
            /\ pc' = "gcp_call"
       ELSE /\ pc' = "done"
            /\ UNCHANGED <<added_products, trace>>
    /\ UNCHANGED <<siteVars, auxVars, storeVars, runVars, gcpVars, pages_list, pageIdx,
                   page_hashes, new_hashes, tableIdx, clean, faults, loadOutcome,
                   prevClean>>

\* lines 595-647: fetch the listing page, hash its product tables, skip the page when
\* no hash is new; a failed fetch is not caught and ends the run
ProcessListing ==
    /\ pc = "sc_page"
    /\ entry = "scrape_category"
    /\ pageIdx <= Len(pages_list)
    /\ \E ok \in Outcomes :
         LET page_url == pages_list[pageIdx]
             product_tables == site.cards[page_url]
             hashes == PageHashes(product_tables)
             new == NewHashes(hashes, existing_products)
         IN IF ~ok
            THEN /\ pc' = "aborted"
                 /\ clean' = FALSE
                 /\ faults' = faults + 1
                 /\ trace' = Append(trace, Event("fetch_failed", page_url, 0, 0, <<>>, FALSE))
                 /\ UNCHANGED <<pageIdx, page_hashes, new_hashes>>
            ELSE /\ UNCHANGED <<clean, faults>>
                 /\ IF (\A i \in DOMAIN product_tables : ~product_tables[i].signature)
                       \/ new = {}
                    THEN /\ pageIdx' = pageIdx + 1
                         /\ trace' = Append(trace, Event("skip", page_url, 0, 0, <<>>, TRUE))
                         /\ UNCHANGED <<pc, page_hashes, new_hashes>>
                    ELSE /\ page_hashes' = hashes
                         /\ new_hashes' = new
                         /\ trace' = Append(trace, Event("page", page_url, 0, 0, <<>>, TRUE))
                         /\ pc' = "sc_card"
                         /\ UNCHANGED pageIdx
    /\ UNCHANGED <<siteVars, auxVars, storeVars, runVars, gcpVars, pages_list, tableIdx,
                   added_products, loadOutcome, prevClean>>

\* one iteration of the loop of lines 650-672: process_product_card (with its fetch
\* of the detail page), then upsert_product for the record it returns
ProcessCard ==
    /\ pc = "sc_card"
    /\ \E product_hash \in new_hashes, detail_ok \in Outcomes, store_ok \in Outcomes :
         LET page_url == pages_list[pageIdx]
             idx == page_hashes[product_hash]
             card == site.cards[page_url][idx]
             data == ProcessProductCard(card, cats[catIdx], detail_ok)
             fetched == DetailEvents(page_url, idx, card, detail_ok)
                        \o ErrorEvents(page_url, idx, card)
         IN /\ faults + Failed(detail_ok) + Failed(store_ok) <= MaxFaults
            /\ ~FetchesDetail(card) => detail_ok
            /\ IF data = {}
               THEN /\ store_ok
                    /\ trace' = trace \o fetched
                    /\ clean' = (clean /\ detail_ok)
                    /\ faults' = faults + Failed(detail_ok)
                    /\ UNCHANGED <<products, added_products>>
               ELSE LET product_data == CHOOSE d \in data : TRUE
                        result == UpsertProduct(store_ok)
                    IN /\ trace' = trace \o fetched \o
                               UpsertEvents(page_url, idx, card.id,
                                            product_data.source_html_hash, result)
                       /\ clean' = (clean /\ detail_ok /\ store_ok)
                       /\ faults' = faults + Failed(detail_ok) + Failed(store_ok)
                       /\ IF result = "row"
                          THEN /\ products' = UpsertRow(products, product_data)
                               /\ added_products' =
                                      Append(added_products, product_data.external_product_id)
                          ELSE UNCHANGED <<products, added_products>>
            /\ new_hashes' = new_hashes \ {product_hash}
            /\ IF new_hashes \ {product_hash} = {}
               THEN pageIdx' = pageIdx + 1 /\ pc' = "sc_page"
               ELSE UNCHANGED <<pageIdx, pc>>
    /\ UNCHANGED <<siteVars, auxVars, categories, idColumn, runVars, gcpVars, pages_list,
                   page_hashes, tableIdx, loadOutcome, prevClean>>

RECURSIVE CacheAfterAdded(_, _)
\* lines 679-681: existing_products[product_id] = md5(f"{product_id}") for each
\* product_id of added_products
CacheAfterAdded(cache, added) ==
    IF added = <<>> THEN cache
    ELSE LET product_id == Head(added)
             product_hash == Md5(DecStr(product_id[2]))
             next == [k \in DOMAIN cache \cup {product_id} |->
                        IF k = product_id THEN product_hash ELSE cache[k]]
         IN CacheAfterAdded(next, Tail(added))

\* lines 676-683: the pages of the category are done
CategoryEnd ==
    /\ pc = "sc_page"
    /\ entry = "scrape_category"
    /\ pageIdx > Len(pages_list)
    /\ existing_products' = CacheAfterAdded(existing_products, added_products)
    /\ catIdx' = catIdx + 1
    /\ pc' = "sc_cat"
    /\ UNCHANGED <<siteVars, auxVars, storeVars, entry, arg, run, cats, gcpVars, pageVars,
                   histVars>>

\* ---------------------------------------------------------------- main (793-851)
\* lines 806-821: fetch_categories() or fetch_category() per id; both catch every
\* error, and then there is no category to process
MainCategories ==
    /\ pc = "start"
    /\ entry = "main"
    /\ \E ok \in Outcomes, r \in RootOutcomes :
         /\ ~ok => r = "selector"
         /\ root' = IF ok THEN r ELSE root
         /\ cats' = IF ok THEN SelectSeq(FetchCategoriesResult(r),
                                         LAMBDA c : arg = {} \/ c \in arg)
                    ELSE <<>>
         /\ clean' = (clean /\ ok /\ r = "selector")
         /\ faults' = faults + (IF ok /\ r = "selector" THEN 0 ELSE 1)
    /\ catIdx' = 1
    /\ pc' = "m_cat"
    /\ UNCHANGED <<siteVars, fn, storeVars, entry, arg, run, existing_products, gcpVars,
                   pageVars, trace, loadOutcome, prevClean>>

\* lines 827-829: the next category of the loop: fetch_category_pages is called,
\* which calls get_category_pages (line 248)
MainCategoryBegin ==
    /\ pc = "m_cat"
    /\ IF catIdx <= Len(cats)
       THEN /\ trace' = <<>>
            /\ pc' = "gcp_call"
       ELSE /\ pc' = "done"
            /\ UNCHANGED trace
    /\ UNCHANGED <<siteVars, auxVars, storeVars, runVars, gcpVars, pageVars, clean, faults,
                   loadOutcome, prevClean>>

\* one iteration of the loop of fetch_category_pages, lines 294-373: the page is
\* fetched and hashed; for each new hash the call of process_product_card raises
\* NameError (the name category is not defined in this method), which line 368
\* catches: no card is processed.  A failed fetch is caught at line 376 and the
\* method returns [].  After the last page it returns the pages.
FetchCategoryPage ==
    /\ pc = "fcp_page"
    /\ IF pageIdx <= Len(pages_list)
       THEN \E ok \in Outcomes :
              /\ clean' = (clean /\ ok)
              /\ faults' = faults + Failed(ok)
              /\ IF ok
                 THEN /\ pageIdx' = pageIdx + 1
                      /\ UNCHANGED <<pc, pages_list, trace>>
                 ELSE /\ pages_list' = <<>>
                      /\ pageIdx' = 1
                      /\ pc' = "mp_page"
                      /\ trace' = Append(trace, Event("fetch_failed", pages_list[pageIdx],
                                                      0, 0, <<>>, FALSE))
       ELSE /\ pageIdx' = 1
            /\ pc' = "mp_page"
            /\ UNCHANGED <<pages_list, clean, faults, trace>>
    /\ UNCHANGED <<siteVars, auxVars, storeVars, runVars, gcpVars, page_hashes, new_hashes,
                   tableIdx, added_products, loadOutcome, prevClean>>

\* lines 836-846 and process_page 706-719: the next page of the category is fetched;
\* a failed fetch is caught at line 758 and the page is left
ProcessPage ==
    /\ pc = "mp_page"
    /\ IF pageIdx <= Len(pages_list)
       THEN \E ok \in Outcomes :
              LET page_url == pages_list[pageIdx]
                  product_tables == site.cards[page_url]
              IN /\ clean' = (clean /\ ok)
                 /\ faults' = faults + Failed(ok)
                 /\ IF ok /\ product_tables # <<>>
                    THEN /\ tableIdx' = 1
                         /\ pc' = "mp_table"
                         /\ trace' = Append(trace, Event("page", page_url, 0, 0, <<>>, TRUE))
                         /\ UNCHANGED <<pageIdx, catIdx>>
                    ELSE /\ pageIdx' = pageIdx + 1
                         /\ trace' = IF ok THEN trace
                                      ELSE Append(trace, Event("fetch_failed", page_url,
                                                               0, 0, <<>>, FALSE))
                         /\ UNCHANGED <<pc, tableIdx, catIdx>>
       ELSE /\ catIdx' = catIdx + 1
            /\ pc' = "m_cat"
            /\ UNCHANGED <<pageIdx, tableIdx, trace, clean, faults>>
    /\ UNCHANGED <<siteVars, auxVars, storeVars, entry, arg, run, cats, existing_products,
                   gcpVars, pages_list, page_hashes, new_hashes, added_products,
                   loadOutcome, prevClean>>

\* one iteration of the loop of lines 721-755: the category row is selected and
\* inserted when there is none, then process_product_card (with its fetch of the
\* detail page) and upsert_product; an error of the store is caught at line 753
ProcessTable ==
    /\ pc = "mp_table"
    /\ \E cat_ok \in Outcomes, detail_ok \in Outcomes, store_ok \in Outcomes :
         LET page_url == pages_list[pageIdx]
             card == site.cards[page_url][tableIdx]
             c == cats[catIdx]
             inserted == NewCategoryRow(c, run)
             internal_cat_id == IF CategoryRows(c) = {} THEN inserted.id
                                ELSE categories[CHOOSE i \in CategoryRows(c) :
                                        \A j \in CategoryRows(c) : i <= j].id
             data == ProcessProductCard(card, internal_cat_id, detail_ok)
             fetched == DetailEvents(page_url, tableIdx, card, detail_ok)
                        \o ErrorEvents(page_url, tableIdx, card)
         IN /\ faults + Failed(cat_ok) + Failed(detail_ok) + Failed(store_ok) <= MaxFaults
            /\ ~FetchesDetail(card) => detail_ok
            /\ clean' = (clean /\ cat_ok /\ detail_ok /\ store_ok)
            /\ faults' = faults + Failed(cat_ok) + Failed(detail_ok) + Failed(store_ok)
            /\ IF ~cat_ok
               THEN /\ detail_ok /\ store_ok
                    /\ UNCHANGED <<categories, products, trace>>
               ELSE /\ categories' = IF CategoryRows(c) = {}
                                     THEN Append(categories, inserted) ELSE categories
                    /\ IF data = {}
                       THEN /\ store_ok
                            /\ trace' = trace \o fetched
                            /\ UNCHANGED products
                       ELSE LET product_data == CHOOSE d \in data : TRUE
                                result == UpsertProduct(store_ok)
                            IN /\ trace' = trace \o fetched \o
                                       UpsertEvents(page_url, tableIdx, card.id,
                                                    product_data.source_html_hash, result)
                               /\ products' = IF result = "row"
                                              THEN UpsertRow(products, product_data)
                                              ELSE products
            /\ IF tableIdx < Len(site.cards[page_url])
               THEN tableIdx' = tableIdx + 1 /\ UNCHANGED <<pageIdx, pc>>
               ELSE tableIdx' = 1 /\ pageIdx' = pageIdx + 1 /\ pc' = "mp_page"
    /\ UNCHANGED <<siteVars, auxVars, idColumn, runVars, gcpVars, pages_list, page_hashes,
                   new_hashes, added_products, loadOutcome, prevClean>>

\* the sites that differ from s in the price of one card
Edits(s) ==
    UNION {{[s EXCEPT !.cards[u][i].price = p] : i \in 1..Len(s.cards[u]), p \in Prices} :
              u \in AllUrls} \ {s}

\* the script is started again: a new run, on the same site or on an edited one
NextRun ==
    /\ pc \in {"done", "aborted"}
    /\ run < MaxRuns
    /\ run' = run + 1
    /\ \E s \in {site} \cup Edits(site) :
         /\ site' = s
         /\ prevClean' = (pc = "done" /\ clean /\ s = site)
    /\ clean' = TRUE
    /\ loadOutcome' = "none"
    /\ trace' = <<>>
    /\ pc' = "start"
    /\ cats' = <<>>
    /\ catIdx' = 1
    /\ existing_products' = <<>>
    /\ pages' = {}
    /\ pages_to_check' = {}
    /\ checked_pages' = {}
    /\ pages_list' = <<>>
    /\ pageIdx' = 1
    /\ page_hashes' = <<>>
    /\ new_hashes' = {}
    /\ tableIdx' = 1
    /\ added_products' = <<>>
    /\ fetchCount' = [u \in AllUrls |-> 0]
    /\ fetchFailed' = FALSE
    /\ fetchOrder' = <<>>
    /\ root' = "unread"
    /\ UNCHANGED <<storeVars, entry, arg, faults, fn>>

\* the state in which a behaviour of the crawl begins, whatever the site
InitRun ==
    /\ products = <<>>
    /\ categories = <<>>
    /\ idColumn \in {"text", "integer"}
    /\ entry \in {"scrape_category", "main"}
    /\ arg \in {{}} \cup {{c} : c \in Cats}
    /\ run = 1
    /\ pc = "start"
    /\ cats = <<>>
    /\ catIdx = 1
    /\ existing_products = <<>>
    /\ pages = {}
    /\ pages_to_check = {}
    /\ checked_pages = {}
    /\ pages_list = <<>>
    /\ pageIdx = 1
    /\ page_hashes = <<>>
    /\ new_hashes = {}
    /\ tableIdx = 1
    /\ added_products = <<>>
    /\ fetchCount = [u \in AllUrls |-> 0]
    /\ fetchFailed = FALSE
    /\ fetchOrder = <<>>
    /\ trace = <<>>
    /\ clean = TRUE
    /\ faults = 0
    /\ loadOutcome = "none"
    /\ prevClean = FALSE
    /\ root = "unread"
    /\ fn = <<>>

Init == site \in Sites /\ InitRun

Next ==
    \/ GetCategories
    \/ EnsureCategory
    \/ LoadExisting
    \/ CategoryBegin
    \/ GcpBegin
    \/ CheckPage
    \/ GcpReturn
    \/ ProcessListing
    \/ ProcessCard
    \/ CategoryEnd
    \/ MainCategories
    \/ MainCategoryBegin
    \/ FetchCategoryPage
    \/ ProcessPage
    \/ ProcessTable
    \/ NextRun

Spec == Init /\ [][Next]_vars

\* ------------------------------------------------ the store client specification
\* supabase_client.py lines 35-61, upsert_category called by a user of the client
\* between two crawls: select by external_id, then update of the rows found (line
\* 56) or insert of a new row (line 59); product_count is written when the caller
\* gives one (lines 49-50). No handler: an error of the store leaves the call, and
\* the table as it was.
UpsertCategory ==
    /\ pc \in {"start", "done", "aborted"}
    /\ \E ok \in Outcomes, external_id \in 1..MaxCat, count \in {{}, {0}} :
         LET found == CategoryRows(external_id)
             data == [NewCategoryRow(external_id, run) EXCEPT !.product_count = count]
         IN /\ faults' = faults + Failed(ok)
            /\ categories' =
                  IF ~ok THEN categories
                  ELSE IF found # {}
                  THEN [i \in DOMAIN categories |->
                          IF i \in found
                          THEN [categories[i] EXCEPT
                                  !.last_crawled_at = run,
                                  !.product_count = IF count = {} THEN @ ELSE count]
                          ELSE categories[i]]
                  ELSE Append(categories, data)
    /\ UNCHANGED <<pc, siteVars, auxVars, products, idColumn, runVars, gcpVars, pageVars,
                   trace, clean, loadOutcome, prevClean>>

NextStore == Next \/ UpsertCategory

SpecStore == Init /\ [][NextStore]_vars

\* ------------------------------------------------- card extraction specification
\* the product tables of the extraction specification: table k has link id k, or no
\* link, or a link whose id is no number; a name or none; a price with glyph that
\* parses, or one without glyph, or one that does not parse; at most one defect
DefectCards(k) ==
    {c \in [id : {k, NoLink, BadId}, name : {"n1", ""},
            price : {"p1", NoGlyphPrice, BadPrice}, thumb : {"t1"}, signature : {TRUE}] :
        Cardinality({f \in {"id", "name", "price"} :
                       \/ f = "id" /\ c.id # k
                       \/ f = "name" /\ c.name = ""
                       \/ f = "price" /\ c.price # "p1"}) <= 1}

\* one category with one listing page of one or two product tables
DefectSites ==
    {[links |-> [u \in AllUrls |-> IF u = BaseUrl(1) THEN {BaseUrl(1)} ELSE {}],
      side |-> [u \in AllUrls |-> {}],
      cards |-> [u \in AllUrls |-> IF u = BaseUrl(1) THEN l ELSE <<>>],
      hires |-> [i \in ProductIds |-> h]] :
        l \in {<<c>> : c \in DefectCards(1)}
              \cup {<<c, d>> : c \in DefectCards(1), d \in DefectCards(2)},
        h \in {NoImage, "h1"}}

InitCards == site \in DefectSites /\ InitRun

SpecCards == InitCards /\ [][Next]_vars

\* ------------------------------------------------------ the tables specification
\* the tables of a listing page: product table k; product table k whose link holds
\* no image; a table with the content of a product table but not its signature
\* (another width or id attribute); the pagination control, whose first cell holds a
\* link to a page (its id= value is no number) or no link
Tables(k) ==
    {[id |-> k, name |-> "n1", price |-> "p1", thumb |-> "t1", signature |-> TRUE],
     [id |-> k, name |-> "n1", price |-> "p1", thumb |-> NoImage, signature |-> TRUE],
     [id |-> k, name |-> "n1", price |-> "p1", thumb |-> "t1", signature |-> FALSE],
     [id |-> BadId, name |-> "", price |-> NoGlyphPrice, thumb |-> NoImage,
      signature |-> FALSE],
     [id |-> NoLink, name |-> "", price |-> NoGlyphPrice, thumb |-> NoImage,
      signature |-> FALSE]}

\* one category with one listing page of one or two tables
TableSites ==
    {[links |-> [u \in AllUrls |-> IF u = BaseUrl(1) THEN {BaseUrl(1)} ELSE {}],
      side |-> [u \in AllUrls |-> {}],
      cards |-> [u \in AllUrls |-> IF u = BaseUrl(1) THEN l ELSE <<>>],
      hires |-> [i \in ProductIds |-> h]] :
        l \in {<<c>> : c \in Tables(1)} \cup {<<c, d>> : c \in Tables(1), d \in Tables(2)},
        h \in {NoImage, "h1"}}

InitTables == site \in TableSites /\ InitRun

SpecTables == InitTables /\ [][Next]_vars

\* ------------------------------------------------------ pagination specification
\* the state in which a call of get_category_pages begins, whatever the site
InitTraversal ==
    /\ products = <<>>
    /\ categories = <<>>
    /\ idColumn = "text"
    /\ entry = "pages"
    /\ arg = {}
    /\ run = 1
    /\ pc = "gcp_call"
    /\ cats \in {<<c>> : c \in Cats}
    /\ catIdx = 1
    /\ existing_products = <<>>
    /\ pages = {}
    /\ pages_to_check = {}
    /\ checked_pages = {}
    /\ pages_list = <<>>
    /\ pageIdx = 1
    /\ page_hashes = <<>>
    /\ new_hashes = {}
    /\ tableIdx = 1
    /\ added_products = <<>>
    /\ fetchCount = [u \in AllUrls |-> 0]
    /\ fetchFailed = FALSE
    /\ fetchOrder = <<>>
    /\ trace = <<>>
    /\ clean = TRUE
    /\ faults = 0
    /\ loadOutcome = "none"
    /\ prevClean = FALSE
    /\ root = "unread"
    /\ fn = <<>>

InitPages == site \in PageSites /\ InitTraversal

NextPages == GcpBegin \/ CheckPage \/ GcpReturn

SpecPages == InitPages /\ [][NextPages]_vars

\* the while loop runs as long as it can: the program is sequential and does not stop
SpecPagesFair == SpecPages /\ WF_vars(NextPages)

\* the listing pages of category c and pages of other categories, for the links
\* specification
LinkTargets(c) == UrlsOf(c, MaxPg + 1) \cup {Url(f, 1) : f \in ForeignCats}

\* the sites of the links specification: the pagination tables of the first page of
\* a category and of its second page hold at most two links each, to pages of the
\* category or of another category, and the first page holds links to pages of other
\* categories outside its pagination table; the other pages hold none
LinkSites ==
    UNION {{[links |-> [u \in AllUrls |-> CASE u = Url(c, 0) -> a
                                          [] u = Url(c, 1) -> b
                                          [] OTHER -> {}],
             side |-> [u \in AllUrls |-> IF u = Url(c, 0) THEN x ELSE {}],
             cards |-> [u \in AllUrls |-> <<>>],
             hires |-> [i \in ProductIds |-> NoImage]] :
              a, b \in {L \in SUBSET LinkTargets(c) : Cardinality(L) <= 2},
              x \in SUBSET {Url(f, 1) : f \in ForeignCats}} : c \in Cats}

InitLinks == site \in LinkSites /\ InitTraversal

SpecLinks == InitLinks /\ [][NextPages]_vars

\* ------------------------------------------------ functions specified on their own
\* the program is not running: its variables at their values before a run, on site s
IdleOn(s) ==
    /\ site = s
    /\ products = <<>>
    /\ categories = <<>>
    /\ idColumn = "text"
    /\ entry = "fn"
    /\ arg = {}
    /\ run = 1
    /\ pc = "idle"
    /\ cats = <<>>
    /\ catIdx = 1
    /\ existing_products = <<>>
    /\ pages = {}
    /\ pages_to_check = {}
    /\ checked_pages = {}
    /\ pages_list = <<>>
    /\ pageIdx = 1
    /\ page_hashes = <<>>
    /\ new_hashes = {}
    /\ tableIdx = 1
    /\ added_products = <<>>
    /\ fetchCount = [u \in AllUrls |-> 0]
    /\ fetchFailed = FALSE
    /\ fetchOrder = <<>>
    /\ trace = <<>>
    /\ clean = TRUE
    /\ faults = 0
    /\ loadOutcome = "none"
    /\ prevClean = FALSE
    /\ root = "unread"

programVars == <<site, products, categories, idColumn, entry, arg, run, pc, cats, catIdx,
                 existing_products, pages, pages_to_check, checked_pages, pages_list,
                 pageIdx, page_hashes, new_hashes, tableIdx, added_products, fetchCount,
                 fetchFailed, fetchOrder, trace, clean, faults, loadOutcome, prevClean, root>>

\* a site without links and cards
EmptySite == [links |-> [u \in AllUrls |-> {}],
              side |-> [u \in AllUrls |-> {}],
              cards |-> [u \in AllUrls |-> <<>>],
              hires |-> [i \in ProductIds |-> NoImage]]

\* ------------------------------------------------------ fingerprint specification
\* texts of the fields of a card, with and without the separator of hash_data
FpFields == {"", "a", ":", "a:"}
FpTriples == FpFields \X FpFields \X FpFields

\* the product table with name, price cell and thumbnail t
CardOf(t) == [id |-> 1, name |-> t[1], price |-> t[2], thumb |-> t[3], signature |-> TRUE]

\* the site whose first listing page shows the card of t, every detail page holding
\* the image h (or none)
SiteOf(t, h) == [links |-> [u \in AllUrls |-> {}],
                 side |-> [u \in AllUrls |-> {}],
                 cards |-> [u \in AllUrls |-> IF u = BaseUrl(1) THEN <<CardOf(t)>> ELSE <<>>],
                 hires |-> [i \in ProductIds |-> h]]

InitFingerprint ==
    \E a \in FpTriples, b \in FpTriples, h \in FpFields \cup {NoImage} :
        /\ IdleOn(SiteOf(a, h))
        /\ fn = [op |-> "fingerprint", a |-> a, b |-> b, out |-> <<>>]

\* lines 504-511 applied to the two triples, and process_product_card applied to the
\* card of the first
Fingerprint ==
    /\ fn # <<>>
    /\ fn.op = "fingerprint"
    /\ fn.out = <<>>
    /\ \E detail_ok \in BOOLEAN :
         fn' = [fn EXCEPT !.out =
                   [ha |-> Md5(HashData(fn.a[1], fn.a[2], fn.a[3])),
                    hb |-> Md5(HashData(fn.b[1], fn.b[2], fn.b[3])),
                    records |-> ProcessProductCard(CardOf(fn.a), 1, detail_ok)]]
    /\ UNCHANGED programVars

NextFingerprint == Fingerprint

SpecFingerprint == InitFingerprint /\ [][NextFingerprint]_vars

\* ------------------------------------------------------- _fetch_page specification
\* @retry(stop=stop_after_attempt(3), wait=wait_exponential(multiplier=1, min=4, max=10))
StopAttempts == 3
WaitMultiplier == 1
WaitMin == 4
WaitMax == 10

\* what one session.get / raise_for_status gives: the text of a 2xx response, an
\* HTTPStatusError (caught, printed and raised again at lines 74-78), or an error
\* of the transport (not caught in the function)
FetchFailures == {"http_404", "http_500", "transport"}
Responses == {"text"} \cup FetchFailures

\* a stop that gives up after the first attempt
StopAfterFirst(attempt_number) == attempt_number >= 1

\* stop_after_attempt(3)
StopAfterAttempt(attempt_number) == attempt_number >= StopAttempts

RECURSIVE Pow2(_)
Pow2(n) == IF n = 0 THEN 1 ELSE 2 * Pow2(n - 1)

\* wait_exponential: multiplier * 2^(attempt_number - 1), kept within [min, max]
WaitExponential(attempt_number) ==
    LET exp == WaitMultiplier * Pow2(attempt_number - 1)
        capped == IF exp > WaitMax THEN WaitMax ELSE exp
    IN IF capped < WaitMin THEN WaitMin ELSE capped

InitFetch ==
    /\ IdleOn(EmptySite)
    /\ \E url \in AllUrls :
         fn = [op |-> "_fetch_page", url |-> url, attempt_number |-> 0,
               responses |-> <<>>, sleeps |-> <<>>, result |-> "running"]

\* one attempt of the retrying call: the function body runs once; its return value
\* is returned, its exception is retried after the wait unless the stop says to give
\* up, and then RetryError is raised
FetchAttempt ==
    /\ fn # <<>>
    /\ fn.op = "_fetch_page"
    /\ fn.result = "running"
    /\ \E r \in Responses :
         LET n == fn.attempt_number + 1
         IN fn' = [fn EXCEPT
                      !.attempt_number = n,
                      !.responses = Append(@, r),
                      !.sleeps = IF r \in FetchFailures /\ ~StopAfterAttempt(n)
                                 THEN Append(@, WaitExponential(n)) ELSE @,
                      !.result = CASE r = "text" -> "returned"
                                   [] r # "text" /\ StopAfterAttempt(n) -> "raised"
                                   [] OTHER -> "running"]
    /\ UNCHANGED programVars

NextFetch == FetchAttempt

SpecFetch == InitFetch /\ [][NextFetch]_vars

\* ------------------------------------------------------ parse_price (price.py)
\* a string is the sequence of its characters; "colon" is the colon sign U+20A1 and
\* "cent" the cent sign U+00A2
Glyphs == {"colon", "cent"}
Whitespace == {" "}
Digits == {"0", "1", "2", "4", "5"}
Chars == Glyphs \cup Whitespace \cup Digits \cup {",", ".", "-", "n", "a", "f", "r", "e", "i"}

Str(n) == UNION {[1..k -> Chars] : k \in 0..n}

\* the examples of the documentation: "colon 12,500", "cent 4000", "free"
Examples == {<<"colon", "1", "2", ",", "5", "0", "0">>, <<"cent", "4", "0", "0", "0">>,
             <<"f", "r", "e", "e">>}

Remove(s, T) == SelectSeq(s, LAMBDA c : c \notin T)

RECURSIVE Strip(_)
\* str.strip(): the string without its leading and trailing whitespace
Strip(s) ==
    IF s = <<>> THEN s
    ELSE IF Head(s) \in Whitespace THEN Strip(Tail(s))
    ELSE IF s[Len(s)] \in Whitespace THEN Strip(SubSeq(s, 1, Len(s) - 1))
    ELSE s

DigitValue(c) ==
    CASE c = "0" -> 0 [] c = "1" -> 1 [] c = "2" -> 2 [] c = "4" -> 4 [] c = "5" -> 5

RECURSIVE Num(_)
\* the number a string of digits denotes
Num(s) == IF s = <<>> THEN 0
          ELSE 10 * Num(SubSeq(s, 1, Len(s) - 1)) + DigitValue(s[Len(s)])

DigitPart(s) == s # <<>> /\ \A i \in DOMAIN s : s[i] \in Digits

\* digits with at most one point and at least one digit: "12", "1.5", ".5", "1."
PointFloat(s) ==
    /\ \A i \in DOMAIN s : s[i] \in Digits \cup {"."}
    /\ Cardinality({i \in DOMAIN s : s[i] = "."}) <= 1
    /\ \E i \in DOMAIN s : s[i] \in Digits

\* the values of a float: mantissa * 10^exponent with its sign, nan, inf; or the
\* ValueError float() raises
FloatValue(kind, neg, mantissa, exponent) ==
    [kind |-> kind, neg |-> neg, mantissa |-> mantissa, exponent |-> exponent]
FloatError == FloatValue("ValueError", FALSE, 0, 0)

\* float(s) of the Python builtin for a string without whitespace: an optional sign,
\* then "nan", "inf" ("infinity" has letters outside Chars) or a decimal number with
\* an optional exponent; anything else raises ValueError
Float(s) ==
    LET neg == s # <<>> /\ Head(s) = "-"
        body == IF neg THEN Tail(s) ELSE s
        es == {i \in DOMAIN body : body[i] = "e"}
        k == IF es = {} THEN Len(body) + 1 ELSE CHOOSE i \in es : \A j \in es : i <= j
        number == SubSeq(body, 1, k - 1)
        exp == SubSeq(body, k + 1, Len(body))
        expNeg == exp # <<>> /\ Head(exp) = "-"
        expDigits == IF expNeg THEN Tail(exp) ELSE exp
        points == {i \in DOMAIN number : number[i] = "."}
        fraction == IF points = {} THEN 0 ELSE Len(number) - (CHOOSE i \in points : TRUE)
        e == IF es = {} THEN 0 ELSE IF expNeg THEN 0 - Num(expDigits) ELSE Num(expDigits)
    IN CASE body = <<"n", "a", "n">> -> FloatValue("nan", neg, 0, 0)
         [] body = <<"i", "n", "f">> -> FloatValue("inf", neg, 0, 0)
         [] PointFloat(number) /\ (es # {} => DigitPart(expDigits)) ->
                FloatValue("finite", neg, Num(Remove(number, {"."})), e - fraction)
         [] OTHER -> FloatError

\* price.py lines 3-29: strip (14), removal of the currency signs, the commas and
\* the whitespace (17), float (21); ValueError of float is raised again as
\* ValueError (28-29), every value float returns is returned (27)
ParsePrice(price_str) ==
    LET price_raw == Strip(price_str)
        price_numeric == Remove(price_raw, Glyphs \cup {","} \cup Whitespace)
        price_float == Float(price_numeric)
    IN [raised |-> price_float = FloatError, price_raw |-> price_raw,
        price_float |-> price_float]

InitPrice ==
    /\ IdleOn(EmptySite)
    /\ \E price_str \in Str(MaxLen) \cup Examples :
         fn = [op |-> "parse_price", price_str |-> price_str, done |-> FALSE,
               out |-> ParsePrice(<<>>)]

CallParsePrice ==
    /\ fn # <<>>
    /\ fn.op = "parse_price"
    /\ ~fn.done
    /\ fn' = [fn EXCEPT !.done = TRUE, !.out = ParsePrice(fn.price_str)]
    /\ UNCHANGED programVars

NextPrice == CallParsePrice

SpecPrice == InitPrice /\ [][NextPrice]_vars

RECURSIVE ReachFrom(_)
\* the URLs reachable from the set S through the extracted pagination links
ReachFrom(S) ==
    LET T == S \cup UNION {site.links[u] : u \in S}
    IN IF T = S THEN S ELSE ReachFrom(T)

\* C1: get_category_pages terminates on every finite pagination link graph (cycles,
\* self-links and duplicate links included) and fetches no URL more than once
\* during one traversal.
C1_TerminatesFetchingOnce ==
    /\ <>(pc = "gcp_done")
    /\ [](\A u \in AllUrls : fetchCount[u] <= 1)

\* a traversal over a graph with a cycle or a self-link has returned
C1_Witness ==
    /\ pc = "gcp_done"
    /\ \E u \in checked_pages : u \in site.links[u]
    /\ \E u, v \in checked_pages : u # v /\ v \in site.links[u] /\ u \in site.links[v]

IsAscending(s) == \A i \in 1..(Len(s) - 1) : UrlLeq(s[i], s[i + 1]) /\ s[i] # s[i + 1]

\* C2: the list get_category_pages returns is duplicate-free and ascending, its set
\* of elements is the set of URLs fetched during the traversal, and when every fetch
\* succeeded it is the set of URLs reachable from the first page of the category.
C2_SortedVisited ==
    pc = "gcp_done" =>
        /\ IsAscending(pages_list)
        /\ Range(pages_list) = checked_pages
        /\ \A u \in AllUrls : (u \in checked_pages) <=> (fetchCount[u] = 1)
        /\ (~fetchFailed => Range(pages_list) = ReachFrom({BaseUrl(cats[catIdx])}))

\* a traversal that found several pages, none of them by a failed fetch, has returned
C2_Witness ==
    /\ pc = "gcp_done"
    /\ ~fetchFailed
    /\ Len(pages_list) >= 2
    /\ \E u \in AllUrls : u \notin checked_pages

\* the number of fields in which the triples a and b differ
Differences(a, b) == Cardinality({i \in 1..3 : a[i] # b[i]})

C12_FetchRetries ==
    (fn # <<>> /\ fn.op = "_fetch_page") =>
        /\ fn.attempt_number = Len(fn.responses)
        /\ fn.attempt_number <= 3
        /\ \A i \in 1..(Len(fn.responses) - 1) : fn.responses[i] \in FetchFailures
        /\ fn.result = "returned" <=>
              (fn.responses # <<>> /\ fn.responses[Len(fn.responses)] = "text")
        /\ fn.result = "raised" <=>
              (Len(fn.responses) = 3 /\ fn.responses[3] \in FetchFailures)

\* the call returned the text of its third attempt, after an HTTP-status failure and
\* a failure of the transport
C12_Witness ==
    /\ fn # <<>> /\ fn.op = "_fetch_page"
    /\ fn.result = "returned"
    /\ fn.responses = <<"http_500", "transport", "text">>

\* ------------------------------------------------------- reconciliation claims
\* the fingerprints the cache holds for a product id, under either form of the key
CachedFps(id) ==
    {existing_products[k] : k \in {StrKey(id), IntKey(id)} \cap DOMAIN existing_products}

\* the page loop of a category is running: the cache is the one its cards are
\* compared with, and trace holds the events of the category so far
InPageLoop == pc \in {"sc_page", "sc_card", "mp_page", "mp_table"}

Upserts == {i \in DOMAIN trace : trace[i].kind = "upsert"}

\* the page loop has finished listing page u
PageDone(u) == InPageLoop /\ \E j \in 1..(pageIdx - 1) : j <= Len(pages_list) /\ pages_list[j] = u

\* the cards of the site, as <<url, index>>
SiteCards == {<<u, i>> : u \in AllUrls, i \in 1..MaxCards} \cap
             UNION {{<<u, i>> : i \in 1..Len(site.cards[u])} : u \in AllUrls}

CardAt(ui) == site.cards[ui[1]][ui[2]]

\* no product id is listed with two different contents
OneContentPerId ==
    \A a, b \in SiteCards : CardAt(a).id = CardAt(b).id => CardAt(a) = CardAt(b)

\* C3: idempotence: a run that follows a complete run on the unchanged site, with
\* its cache loaded from what that run persisted, issues no upsert_product call
\* (no card is NEW or CHANGED).
C3_SecondRunWritesNothing ==
    (prevClean /\ clean /\ loadOutcome = "all" /\ OneContentPerId) => Upserts = {}

\* C4: upsert_product is called for a card only if the card's id is absent from the
\* cache or the fingerprint cached for the id differs from the card's fingerprint.
C4_UpsertOnlyNewOrChanged ==
    (InPageLoop /\ faults = 0) => \A i \in Upserts : trace[i].fp \notin CachedFps(trace[i].id)

\* every card of listing page u has its listing fingerprint in the cache, under its id
PageMatchesCache(u) ==
    \A i \in 1..Len(site.cards[u]) :
        PageHash(site.cards[u][i]) \in CachedFps(site.cards[u][i].id)

\* C5: page-level short-circuit: for a listing page whose cards all have their
\* fingerprint in the cache, no detail page is fetched and no upsert is issued.
C5_PageShortCircuit ==
    InPageLoop =>
        \A i \in DOMAIN trace :
            trace[i].kind \in {"detail", "upsert"} => ~PageMatchesCache(trace[i].url)

\* a listing page with cards, all cached, was skipped
C5_Witness ==
    /\ InPageLoop
    /\ \E i \in DOMAIN trace :
          /\ trace[i].kind = "skip"
          /\ site.cards[trace[i].url] # <<>>
          /\ PageMatchesCache(trace[i].url)

\* C6: a card whose id is absent from the cache is handed to upsert_product, also
\* when its fingerprint is the fingerprint cached for another product id.
C6_UnseenIsUpserted ==
    \A ui \in SiteCards :
        (/\ PageDone(ui[1])
         /\ faults = 0
         /\ CachedFps(CardAt(ui).id) = {}
         /\ PageHash(CardAt(ui)) \in Range(existing_products))
        => \E j \in Upserts : trace[j].url = ui[1] /\ trace[j].idx = ui[2]

\* C7: no detail page is fetched for a card that is UNCHANGED, that is, a card that
\* process_product_card finds in the cache under its id with the fingerprint it
\* computes for the card, and drops.
C7_NoFetchForUnchanged ==
    (InPageLoop /\ faults = 0) =>
        \A i \in DOMAIN trace :
            trace[i].kind = "detail" =>
                ~InCacheSame(existing_products, IntKey(trace[i].id), trace[i].fp)

\* the cards of listing page u have different product ids
DistinctIds(u) ==
    \A i, j \in 1..Len(site.cards[u]) : site.cards[u][i].id = site.cards[u][j].id => i = j

\* C8: on a listing page that is not skipped, every card that is NEW or CHANGED has
\* exactly one upsert_product call, also when two cards of the page have the same
\* (name, price_raw, image_url).
C8_ExactlyOneUpsert ==
    \A ui \in SiteCards :
        (/\ PageDone(ui[1])
         /\ faults = 0
         /\ DistinctIds(ui[1])
         /\ \E j \in DOMAIN trace : trace[j].kind = "page" /\ trace[j].url = ui[1]
         /\ PageHash(CardAt(ui)) \notin CachedFps(CardAt(ui).id))
        => Cardinality({j \in Upserts : trace[j].url = ui[1] /\ trace[j].idx = ui[2]}) = 1

\* C9: after _load_existing_products has returned the rows of its query, the cache
\* has an entry for every product row of the store (of the category when one is
\* given), whatever the number of rows the store returns per query.
C9_CacheComplete ==
    (entry = "scrape_category" /\ pc = "sc_cat" /\ catIdx = 1 /\ loadOutcome # "error") =>
        \A n \in Matching(arg) : CachedFps(n) # {}

\* the number of product cards on the listing pages of category c
CardCount(c) == Cardinality({ui \in SiteCards : ui[1][1] = c})

\* C10: when scrape_category has finished, the row of each category it processed
\* has last_crawled_at set to the time of this run and product_count equal to the
\* number of product cards of the category.
C10_CategoryRowUpdated ==
    (entry = "scrape_category" /\ pc = "done" /\ clean) =>
        \A k \in {j \in 1..Len(cats) : CardCount(cats[j]) > 0} :
            /\ CategoryRows(cats[k]) # {}
            /\ \A i \in CategoryRows(cats[k]) :
                  /\ categories[i].last_crawled_at = run
                  /\ categories[i].product_count = {CardCount(cats[k])}

\* the run ended while the listing page pages_list[pageIdx] was being fetched
ListingFetchEndedRun ==
    pc = "aborted" /\ catIdx <= Len(cats) /\ pageIdx <= Len(pages_list)

\* the listing pages of the category whose fetch failed
FailedListings == {trace[i].url : i \in {j \in DOMAIN trace : trace[j].kind = "fetch_failed"}}

\* C13: a listing page whose fetch fails is skipped and the run goes on: the failure
\* does not end the run, and the other pages of the category are still processed
\* (main hands every page get_category_pages found to process_page).
C13_ListingFailureSkipsPage ==
    /\ ~ListingFetchEndedRun
    /\ (entry = "main" /\ pc \in {"mp_page", "mp_table"}) =>
          (pages \ FailedListings) \subseteq Range(pages_list)

\* C14: when the root page has no category selector, the failure is fatal to the
\* run: afterwards no category page is fetched, and no listing page is processed
\* and nothing is written for any category.
C14_NoSelectorIsFatal ==
    root \in {"other_select", "no_select"} =>
        /\ \A u \in AllUrls : fetchCount[u] = 0
        /\ trace = <<>>
        /\ pc \notin {"fcp_page", "mp_page", "mp_table", "sc_page", "sc_card"}


\* the card fails one of the extraction steps: missing link, non-numeric id, empty
\* name, no currency glyph in the price cell, unparseable price
Defective(card) ==
    \/ card.id \in {NoLink, BadId}
    \/ card.name = ""
    \/ card.price \in {NoGlyphPrice, BadPrice}

\* listing page u holds a card that fails extraction
HasDefective(u) == \E i \in 1..Len(site.cards[u]) : Defective(site.cards[u][i])

\* no other card of the page has the listing fingerprint of card ui
OwnListingHash(ui) ==
    \A i \in 1..Len(site.cards[ui[1]]) :
        i # ui[2] => PageHash(site.cards[ui[1]][i]) # PageHash(CardAt(ui))

\* C15: a card whose extraction fails (missing link, non-numeric id, empty name, no
\* currency glyph, unparseable price) yields no record and no upsert, for that card
\* only: the run goes on, and every other card of the page that is new to the cache
\* is still handed to upsert_product.
C15_CardFailureIsLocal ==
    /\ \A j \in Upserts : ~Defective(site.cards[trace[j].url][trace[j].idx])
    /\ faults = 0 => pc # "aborted"
    /\ \A ui \in SiteCards :
          (/\ PageDone(ui[1])
           /\ faults = 0
           /\ HasDefective(ui[1])
           /\ ~Defective(CardAt(ui))
           /\ OwnListingHash(ui)
           /\ PageHash(CardAt(ui)) \notin Range(existing_products)
           /\ CurrentHash(CardAt(ui), TRUE) \notin CachedFps(CardAt(ui).id))
          => \E j \in Upserts : trace[j].url = ui[1] /\ trace[j].idx = ui[2]

\* a page whose first card has an unparseable price (its detail page was fetched, no
\* upsert followed) and whose second card was upserted
C15_Witness ==
    /\ PageDone(BaseUrl(1))
    /\ Len(site.cards[BaseUrl(1)]) = 2
    /\ site.cards[BaseUrl(1)][1].price = BadPrice
    /\ \E j \in DOMAIN trace : trace[j].kind = "detail" /\ trace[j].idx = 1
    /\ ~\E j \in Upserts : trace[j].idx = 1
    /\ \E j \in Upserts : trace[j].idx = 2 /\ trace[j].ok

\* the upserts of the run that failed
FailedUpserts == {j \in Upserts : ~trace[j].ok}

\* C16: upsert_product never raises: on a store error it returns None, and the loop
\* of its caller goes on with the next card; the record is not handed to
\* upsert_product again in the same run.
C16_UpsertFailureIsSwallowed ==
    /\ \A j \in DOMAIN trace : trace[j].kind # "upsert_raised"
    /\ \A j \in FailedUpserts :
          /\ \A k \in Upserts :
                (trace[k].url = trace[j].url /\ trace[k].idx = trace[j].idx) => k = j
          /\ faults = 1 => pc # "aborted"
    /\ \A ui \in SiteCards :
          (/\ PageDone(ui[1])
           /\ faults = 1
           /\ \E j \in FailedUpserts : trace[j].url = ui[1] /\ trace[j].idx # ui[2]
           /\ ~Defective(CardAt(ui))
           /\ OwnListingHash(ui)
           /\ PageHash(CardAt(ui)) \notin Range(existing_products)
           /\ CurrentHash(CardAt(ui), TRUE) \notin CachedFps(CardAt(ui).id))
          => \E j \in Upserts : trace[j].url = ui[1] /\ trace[j].idx = ui[2]

\* the upsert of a card failed, the store kept no row for it, and the card that
\* follows on the page was upserted after it
C16_Witness ==
    \E j \in FailedUpserts :
        /\ trace[j].id \notin DOMAIN products
        /\ \E k \in Upserts : k > j /\ trace[k].url = trace[j].url
                                /\ trace[k].idx = trace[j].idx + 1 /\ trace[k].ok

\* the rows of table t with this external_id
RowsOf(t, external_id) == {i \in DOMAIN t : t[i].external_id = external_id}

\* C17: after any sequence of upsert_category calls and check-then-insert steps of
\* scrape_category and process_page, the categories table holds at most one row
\* per external_id, and no step deletes a category row.
C17_OneRowPerCategory ==
    /\ [](\A c \in 1..MaxCat : Cardinality(RowsOf(categories, c)) <= 1)
    /\ [][\A i \in DOMAIN categories :
            /\ i \in DOMAIN categories'
            /\ categories'[i].id = categories[i].id
            /\ categories'[i].external_id = categories[i].external_id]_vars

\* a category row that upsert_category wrote in an earlier run (it has a
\* product_count) was found by the check-then-insert step of the crawl in progress
C17_Witness ==
    /\ InPageLoop
    /\ catIdx <= Len(cats)
    /\ \E i \in RowsOf(categories, cats[catIdx]) :
          categories[i].product_count # {} /\ categories[i].last_crawled_at < run
    /\ Upserts # {}

\* the identifiers the store generated for the rows of categories
InternalIds == {categories[i].id : i \in DOMAIN categories}

\* C18: every product record handed to upsert_product carries as category_id the
\* store-generated internal identifier of the stored category row, on both crawl
\* paths: so does every row the store holds.
C18_InternalCategoryId ==
    faults = 0 => \A n \in DOMAIN products : products[n].category_id \in InternalIds

\* the events of the trace about a card: its detail fetch, its upsert
CardEvents == {i \in DOMAIN trace : trace[i].kind \in {"detail", "upsert"}}

\* C19: within a category the listing pages are processed in ascending URL order,
\* and within a page the cards are processed (extracted, persisted) in the order in
\* which they appear in the document.
C19_ProcessingOrder ==
    faults = 0 =>
        \A i, j \in DOMAIN trace :
            (i < j /\ trace[i].url[1] = trace[j].url[1]) =>
                /\ UrlLeq(trace[i].url, trace[j].url)
                /\ (trace[i].url = trace[j].url /\ i \in CardEvents /\ j \in CardEvents)
                      => trace[i].idx <= trace[j].idx

RECURSIVE DropSpaces(_)
DropSpaces(s) == IF s # <<>> /\ Head(s) \in Whitespace THEN DropSpaces(Tail(s)) ELSE s

\* digit groups separated by ",": "4000", "12,500"
DigitGroups(s) ==
    /\ s # <<>>
    /\ \A i \in DOMAIN s : s[i] \in Digits \cup {","}
    /\ s[1] \in Digits /\ s[Len(s)] \in Digits
    /\ \A i \in 1..(Len(s) - 1) : ~(s[i] = "," /\ s[i + 1] = ",")

\* an accepted currency glyph, optional whitespace, digit groups
WellFormedPrice(s) == s # <<>> /\ Head(s) \in Glyphs /\ DigitGroups(DropSpaces(Tail(s)))

\* no digit remains once whitespace and currency symbols are stripped
NoDigitsRemain(s) == \A i \in DOMAIN s : s[i] \notin Digits

\* C20: parse_price agrees with the reference normalizer: for a currency glyph,
\* optional whitespace and digit groups separated by "," it returns the whole number
\* the digits denote, and it fails with a parse error for every string in which no
\* digit remains after whitespace and currency symbols are stripped.
C20_ParsePriceReference ==
    (fn # <<>> /\ fn.op = "parse_price" /\ fn.done) =>
        /\ WellFormedPrice(fn.price_str) =>
              /\ ~fn.out.raised
              /\ fn.out.price_float =
                    FloatValue("finite", FALSE, Num(Remove(fn.price_str, Chars \ Digits)), 0)
        /\ NoDigitsRemain(fn.price_str) => fn.out.raised

\* C21: only the tables with the product-card signature yield records: a table
\* failing the signature (such as the pagination control) is not extracted, yields
\* no record and is not reported as an error, on every crawl path.
C21_SignatureFiltering ==
    faults = 0 =>
        \A j \in DOMAIN trace :
            trace[j].kind \in {"detail", "card_error", "upsert"} =>
                site.cards[trace[j].url][trace[j].idx].signature

\* C23: a product card without thumbnail image fails extraction:
\* process_product_card returns no record and nothing is persisted for the card.
C23_NoThumbnailFails ==
    faults = 0 =>
        \A j \in Upserts : site.cards[trace[j].url][trace[j].idx].thumb # NoImage

\* the image the record of card c must carry when the fetch of its detail page had
\* outcome ok: the image of the detail page when one was found, else the thumbnail
EnrichedImage(c, ok) ==
    IF ok /\ site.hires[c.id] # NoImage THEN site.hires[c.id] ELSE c.thumb

\* C26: enrichment never overrides a field it cannot find: the record's image_url is
\* the detail-page image when one is found and the listing thumbnail otherwise; a
\* failed detail fetch changes no field of the record and does not abort the record.
C26_EnrichmentKeepsFields ==
    InPageLoop =>
        \A k \in DOMAIN trace :
            trace[k].kind = "detail" =>
                LET c == site.cards[trace[k].url][trace[k].idx]
                    fp == Md5(HashData(c.name, c.price, EnrichedImage(c, trace[k].ok)))
                    next == {j \in Upserts : j = k + 1 /\ trace[j].idx = trace[k].idx
                                                       /\ trace[j].url = trace[k].url}
                IN /\ trace[k].fp = fp
                   /\ next = {} => InCacheSame(existing_products, IntKey(c.id), fp)
                   /\ \A j \in next :
                         /\ trace[j].fp = fp
                         /\ (trace[j].ok /\ \A m \in Upserts : m > j => trace[m].id # c.id)
                               => /\ products[c.id].image_url = EnrichedImage(c, trace[k].ok)
                                  /\ products[c.id].name = c.name
                                  /\ products[c.id].price_raw = c.price

\* the fetch of the detail page failed although the page holds an image; the record
\* was upserted with the listing thumbnail
C26_Witness ==
    /\ InPageLoop
    /\ \E k \in DOMAIN trace :
          /\ trace[k].kind = "detail" /\ ~trace[k].ok
          /\ site.hires[trace[k].id] # NoImage
          /\ k + 1 \in Upserts /\ trace[k + 1].ok
          /\ products[trace[k].id].image_url = site.cards[trace[k].url][trace[k].idx].thumb

\* C24: after scrape_category has updated the cache for a processed category, each
\* external_product_id added to existing_products maps to the content fingerprint
\* most recently persisted for the product (the source_html_hash of its successful
\* upsert), under a key of the form of the keys loaded from the store.
C24_CacheHoldsPersistedFingerprint ==
    (entry = "scrape_category" /\ pc = "sc_cat" /\ catIdx > 1 /\ faults = 0) =>
        \A i \in DOMAIN added_products :
            LET product_id == added_products[i]
            IN /\ product_id \in DOMAIN existing_products
               /\ existing_products[product_id] = products[product_id[2]].source_html_hash
               /\ product_id = ReturnedKey(product_id[2])
\* --------------------------------------------------- order and category of the pages
\* the links of page u that the traversal of category c follows
Followed(c, u) == site.links[u] \cup {v \in site.side[u] : IdInHref(c, v)}

RECURSIVE Within(_, _)
\* the URLs at distance at most d from the first page of category c
Within(c, d) ==
    IF d = 0 THEN {BaseUrl(c)}
    ELSE LET W == Within(c, d - 1) IN W \cup UNION {Followed(c, u) : u \in W}

\* the distance of URL u from the first page of category c in the graph of links
Distance(c, u) ==
    CHOOSE d \in 0..Cardinality(AllUrls) :
        u \in Within(c, d) /\ (d = 0 \/ u \notin Within(c, d - 1))

\* C25: get_category_pages visits the pages breadth-first: when every fetch succeeded,
\* a URL fetched before another one is not farther from the first page of the
\* category than that one.
C25_BreadthFirst ==
    (pc = "gcp_done" /\ ~fetchFailed) =>
        \A i, j \in DOMAIN fetchOrder :
            i < j => Distance(cats[catIdx], fetchOrder[i]) <= Distance(cats[catIdx], fetchOrder[j])

\* C30: every URL get_category_pages returns, and every URL it fetched, is a listing
\* page of the requested category.
C30_OnlyRequestedCategory ==
    pc = "gcp_done" =>
        \A u \in Range(pages_list) \cup checked_pages : u[1] = cats[catIdx]

\* ------------------------------ scrape_uncategorized_fixed2.py: load_existing_products
\* the rows of the products table in the order of the store, by their ids
StoredTables == SUBSET (1..MaxStored)

RECURSIVE Ascending(_)
Ascending(S) ==
    IF S = {} THEN <<>>
    ELSE LET m == CHOOSE x \in S : \A y \in S : x <= y IN <<m>> \o Ascending(S \ {m})

\* .range(first, last) of a select on table rows, in a store that returns at most cap
\* rows per request: the rows first..last (counted from 0) that exist, cut to cap rows
RangeSelect(rows, first, last, cap) ==
    SubSeq(rows, first + 1, Min(Min(last + 1, first + cap), Len(rows)))

\* lines 187-190: the dict of the rows fetched, keyed by str(external_product_id)
ExistingOf(all_products) == {StrKey(all_products[i]) : i \in DOMAIN all_products}

\* lines 155-158: the state of load_existing_products before the first request
InitLoad ==
    /\ IdleOn(EmptySite)
    /\ \E T \in StoredTables, cap \in 1..MaxStoreRows :
         fn = [op |-> "load_existing_products", rows |-> Ascending(T), cap |-> cap,
               current_page |-> 0, all_products |-> <<>>, requests |-> 0,
               done |-> FALSE, raised |-> FALSE, existing_products |-> {}]

\* lines 160-197: one iteration of the while loop: the request, the two tests that
\* leave the loop, the dict built after the loop; a request that raises ends the
\* call in the handler of line 195, with existing_products as __init__ left it
LoadPage ==
    /\ fn # <<>>
    /\ fn.op = "load_existing_products"
    /\ ~fn.done
    /\ \E ok \in BOOLEAN :
         LET offset == fn.current_page * PageSize
             data == RangeSelect(fn.rows, offset, offset + PageSize - 1, fn.cap)
             all_products == fn.all_products \o data
         IN fn' = IF ~ok THEN [fn EXCEPT !.requests = @ + 1, !.done = TRUE, !.raised = TRUE]
                  ELSE IF Len(data) = 0
                       THEN [fn EXCEPT !.requests = @ + 1, !.done = TRUE,
                                       !.existing_products = ExistingOf(fn.all_products)]
                  ELSE IF Len(data) < PageSize
                       THEN [fn EXCEPT !.requests = @ + 1, !.done = TRUE,
                                       !.all_products = all_products,
                                       !.existing_products = ExistingOf(all_products)]
                  ELSE [fn EXCEPT !.requests = @ + 1, !.all_products = all_products,
                                  !.current_page = @ + 1]
    /\ UNCHANGED programVars

NextLoad == LoadPage

SpecLoad == InitLoad /\ [][NextLoad]_vars

\* --------------------------------------- scrape_uncategorized_fixed2.py: run (929-1092)
\* a page of the listing productos_cat.asp?pagina=n as fetch_page and
\* extract_product_links see it: content is FALSE when fetch_page returns None (lines
\* 199-224), links are the ids of the product links, without duplicates (263-396)
ListingPage(content, links) == [content |-> content, links |-> links]

NoContentPage == ListingPage(FALSE, <<>>)
NoLinksPage == ListingPage(TRUE, <<>>)

RECURSIVE SeqsOver(_, _)
\* the sequences of length n over the set S
SeqsOver(S, n) ==
    IF n = 0 THEN {<<>>}
    ELSE {Append(q, x) : q \in SeqsOver(S, n - 1), x \in S}

\* the listings of the run: up to MaxListing pages without content, without links or
\* with a link to product 1, and short listings whose pages link to two products
RunListings ==
    UNION {SeqsOver({NoContentPage, NoLinksPage, ListingPage(TRUE, <<1>>)}, n) :
             n \in 1..MaxListing}
    \cup UNION {SeqsOver({ListingPage(TRUE, <<1, 2>>), ListingPage(TRUE, <<2>>)}, n) :
                  n \in 1..2}

\* line 63: self.stats
NoStats == [total_products |-> 0, new_products |-> 0, existing_products |-> 0, errors |-> 0]

\* lines 929-951: the scraper when run is called with the default arguments
\* (page_limit None, start_page 1); existing_products as load_existing_products
\* will leave it
InitUncat ==
    /\ IdleOn(EmptySite)
    /\ \E listing \in RunListings, existing \in {{}, {StrKey(1)}} :
         fn = [op |-> "run", listing |-> listing, pc |-> "start",
               existing_products |-> existing, end_page |-> 0, page_num |-> 1,
               consecutive_empty_pages |-> 0, product_links |-> <<>>, link |-> 1,
               stats |-> NoStats, inserts |-> <<>>, report |-> <<>>]

Running == fn # <<>> /\ fn.op = "run"

\* lines 954-974: get_total_pages; 0 pages end the run without statistics
RunBegin ==
    /\ Running
    /\ fn.pc = "start"
    /\ \E ok \in BOOLEAN :
         LET total_pages == IF ok THEN Len(fn.listing) ELSE 0
         IN fn' = IF total_pages = 0 THEN [fn EXCEPT !.pc = "returned"]
                  ELSE [fn EXCEPT !.pc = "page", !.end_page = total_pages,
                                  !.consecutive_empty_pages = 0]
    /\ UNCHANGED programVars

\* line 974: max_consecutive_empty
MaxConsecutiveEmpty == 5

\* a counter that a page with products does not set back
CounterNeverReset(counter, page) ==
    IF page.content /\ page.links # <<>> THEN counter ELSE counter + 1

\* lines 985, 1003-1005: the counter after a page
CounterAfter(counter, page) ==
    IF page.content /\ page.links # <<>> THEN 0 ELSE counter + 1

\* lines 977-1019: one page of the for loop up to the loop over its products: the
\* fetch, the links, the counter of consecutive empty pages and the break
RunPage ==
    /\ Running
    /\ fn.pc = "page"
    /\ fn.page_num <= fn.end_page
    /\ LET page == fn.listing[fn.page_num]
           counter == CounterAfter(fn.consecutive_empty_pages, page)
       IN fn' = IF page.content /\ page.links # <<>>
                THEN [fn EXCEPT !.consecutive_empty_pages = counter, !.pc = "product",
                                !.product_links = page.links, !.link = 1]
                ELSE IF counter >= MaxConsecutiveEmpty
                     THEN [fn EXCEPT !.consecutive_empty_pages = counter, !.pc = "stats"]
                ELSE [fn EXCEPT !.consecutive_empty_pages = counter, !.page_num = @ + 1]
    /\ UNCHANGED programVars

\* lines 1026-1034 with process_product_page (398-869) and save_product (871-894):
\* one product link of the page. The product page is fetched or not, its id is in
\* existing_products or not, the product has a category or not; a product without
\* category is handed to save_product, whose insert succeeds or fails, and only a
\* successful insert adds the id to existing_products (line 888)
RunProduct ==
    /\ Running
    /\ fn.pc = "product"
    /\ fn.link <= Len(fn.product_links)
    /\ \E html, uncategorized, inserted \in BOOLEAN :
         LET product_id == StrKey(fn.product_links[fn.link])
             outcome == IF ~html THEN "error"
                        ELSE IF product_id \in fn.existing_products THEN "exists"
                        ELSE IF ~uncategorized THEN "categorized"
                        ELSE "record"
             stats == CASE outcome = "error" -> [fn.stats EXCEPT !.errors = @ + 1]
                        [] outcome = "exists" -> [fn.stats EXCEPT !.existing_products = @ + 1]
                        [] outcome = "categorized" -> fn.stats
                        [] outcome = "record" -> [fn.stats EXCEPT !.total_products = @ + 1,
                                                                  !.new_products = @ + 1]
             saved == outcome = "record" /\ inserted
         IN /\ (outcome # "record" => inserted)
            /\ (~html => uncategorized)
            /\ fn' = [fn EXCEPT
                        !.stats = stats,
                        !.inserts = IF outcome = "record"
                                    THEN Append(@, [id |-> product_id, ok |-> inserted,
                                                    known |-> fn.existing_products])
                                    ELSE @,
                        !.existing_products = IF saved THEN @ \cup {product_id} ELSE @,
                        !.link = @ + 1]
    /\ UNCHANGED programVars

\* lines 1036-1044: the products of the page are done, the next page
RunPageEnd ==
    /\ Running
    /\ fn.pc = "product"
    /\ fn.link > Len(fn.product_links)
    /\ fn' = [fn EXCEPT !.pc = "page", !.page_num = @ + 1]
    /\ UNCHANGED programVars

\* lines 1046-1065: after the loop, the final statistics
RunStatistics ==
    /\ Running
    /\ \/ fn.pc = "stats"
       \/ fn.pc = "page" /\ fn.page_num > fn.end_page
    /\ fn' = [fn EXCEPT !.pc = "done", !.report = <<fn.stats>>]
    /\ UNCHANGED programVars

\* lines 1067-1087: KeyboardInterrupt raised anywhere inside the try of run: the
\* handler prints the partial statistics
RunInterrupted ==
    /\ Running
    /\ fn.pc \in {"start", "page", "product", "stats"}
    /\ fn' = [fn EXCEPT !.pc = "interrupted", !.report = <<fn.stats>>]
    /\ UNCHANGED programVars

NextUncat ==
    \/ RunBegin
    \/ RunPage
    \/ RunProduct
    \/ RunPageEnd
    \/ RunStatistics
    \/ RunInterrupted

SpecUncat == InitUncat /\ [][NextUncat]_vars

\* ------------------------------------------------------------------ interruption
\* KeyboardInterrupt raised while main (804-851) or scrape_category (543-685) runs:
\* every handler of scrape_ofertasb.py is an "except Exception", which does not
\* catch it, so the interpreter ends the process; nothing is printed by the program
Interrupt ==
    /\ pc \in {"start", "sc_categories", "sc_cat", "gcp_call", "gcp_loop", "gcp_done",
               "sc_page", "sc_card", "m_cat", "fcp_page", "mp_page", "mp_table"}
    /\ pc' = "interrupted"
    /\ UNCHANGED <<siteVars, storeVars, entry, arg, run, cats, catIdx, existing_products,
                   gcpVars, pageVars, histVars, auxVars>>

\* the crawl and the run of the uncategorized scraper, each with the interruption
SpecInterrupt == (Init \/ InitUncat) /\ [][Next \/ NextUncat \/ Interrupt]_vars

\* C22: a run that an interruption signal ended, at whatever point of its loop, has
\* reported the statistics gathered up to that point.
C22_InterruptReportsStatistics ==
    (pc = "interrupted" \/ (Running /\ fn.pc = "interrupted")) =>
        (Running /\ fn.report = <<fn.stats>>)

\* C28: the uncategorized scraper attempts at most one insert per external_product_id
\* in a run, hands no id of existing_products to save_product, and does not attempt
\* again an insert that failed.
C28_OneInsertPerProduct ==
    Running =>
        /\ \A i \in DOMAIN fn.inserts : fn.inserts[i].id \notin fn.inserts[i].known
        /\ \A i, j \in DOMAIN fn.inserts : i < j => fn.inserts[i].id # fn.inserts[j].id

\* a page of the listing without content or without product link
EmptyPage(page) == ~page.content \/ page.links = <<>>

RECURSIVE Trailing(_, _)
\* the number of consecutive empty pages of the listing that end with page k
Trailing(listing, k) ==
    IF k = 0 \/ ~EmptyPage(listing[k]) THEN 0 ELSE 1 + Trailing(listing, k - 1)

\* the first page of the listing that ends MaxConsecutiveEmpty consecutive empty pages,
\* one more than the last page when there is none
StopPage(listing) ==
    LET S == {k \in DOMAIN listing : Trailing(listing, k) >= MaxConsecutiveEmpty}
    IN IF S = {} THEN Len(listing) + 1 ELSE CHOOSE k \in S : \A m \in S : k <= m

\* C29: in the run of the uncategorized scraper the counter of consecutive empty
\* pages is, before each page, the number of empty pages (no content or no product
\* link) since the last page with a product link; the loop stops at the first page
\* that brings the counter to 5, and at no other page before the last one.
C29_StopsAtFiveEmptyPages ==
    Running =>
        /\ fn.pc = "page" =>
               /\ fn.consecutive_empty_pages = Trailing(fn.listing, fn.page_num - 1)
               /\ fn.consecutive_empty_pages < MaxConsecutiveEmpty
               /\ fn.page_num <= StopPage(fn.listing)
        /\ fn.pc = "product" => fn.consecutive_empty_pages = 0
        /\ fn.pc = "stats" => fn.consecutive_empty_pages = MaxConsecutiveEmpty
        /\ fn.pc \in {"stats", "done"} => fn.page_num = StopPage(fn.listing)

\* the run stopped at the fifth consecutive empty page, after a page with a product
\* link had set the counter back, and left a page of the listing unvisited
C29_Witness ==
    /\ Running
    /\ fn.pc = "done"
    /\ fn.consecutive_empty_pages = MaxConsecutiveEmpty
    /\ fn.page_num < fn.end_page
    /\ fn.page_num > MaxConsecutiveEmpty

\* C27: the paginated load returns after at most one request per page of the table
\* and one more, and when no request raised, existing_products then holds the id of
\* every stored row, whatever number of rows the store returns per request.
C27_LoadsEveryStoredRow ==
    (fn # <<>> /\ fn.op = "load_existing_products") =>
        /\ fn.requests <= Len(fn.rows) + 1
        /\ (fn.done /\ ~fn.raised) =>
               fn.existing_products = {StrKey(fn.rows[i]) : i \in DOMAIN fn.rows}

====
